---- MODULE Spec2Model ----
(***************************************************************************)
(* The Data Access Service of mcp_server.py: the two SQLite tables, the    *)
(* five dispatcher operations and execute_operation, as a state machine.   *)
(*                                                                         *)
(* Python / SQLite values are records [t, s, n]: t is the type, s the text *)
(* of a str, n the number of an int.  A JSON object is [t, items].         *)
(* Timestamps are the instants of the wall clock (integers); isoformat()   *)
(* text of one UTC offset and width compares as the instants do.           *)
(***************************************************************************)
EXTENDS Integers, Sequences, FiniteSets, TLC

VARIABLES
    customer_accounts,  \* rows of table customer_accounts, in rowid order
    support_tickets,    \* rows of table support_tickets, in rowid order
    ticket_seq,         \* sqlite_sequence of support_tickets (AUTOINCREMENT)
    clock,              \* the last instant datetime.now() returned
    connections,        \* connections opened and not closed so far
    last,               \* the last call: its arguments, pre-state and outcome
    nops,               \* number of calls made
    tables,             \* the tables the database file holds
    pc,                 \* initialize_database_schema in another process: the statement
                        \* it is at, its current_utc, the calls begun, and whether no
                        \* request changed the store since the last one began
    requests            \* the requests the server has accepted, handled or not

vars == <<customer_accounts, support_tickets, ticket_seq, clock, connections, last, nops,
          tables, pc, requests>>

\* Bound: number of dispatcher calls in a run.
MaxOps == 2

-----------------------------------------------------------------------------
(* Values *)

PyStr(s) == [t |-> "str", s |-> s, n |-> 0]
PyInt(n) == [t |-> "int", s |-> "", n |-> n]
PyNone == [t |-> "null", s |-> "", n |-> 0]
PyList == [t |-> "list", s |-> "", n |-> 0]     \* the list [1]
PyDict(f) == [t |-> "dict", items |-> f]

Digit == <<"0", "1", "2", "3", "4", "5", "6", "7", "8", "9">>

\* str(n) of a non-negative int.
RECURSIVE IntToText(_)
IntToText(n) == IF n < 10 THEN Digit[n + 1]
                ELSE IntToText(n \div 10) \o Digit[(n % 10) + 1]

\* str(v) as an f-string formats it.
Format(v) == CASE v.t = "str" -> v.s
               [] v.t = "int" -> IntToText(v.n)
               [] v.t = "null" -> "None"
               [] v.t = "list" -> "[1]"
               [] OTHER -> "{}"

\* The integers whose decimal text SQLite may meet in this model.
Numerals == {1, 2, 3, 4, 5, 7, 99, 12345}

\* sqlite3 binds None, int, float, str and bytes; anything else raises
\* ProgrammingError("Error binding parameter").
Bindable(v) == v.t \in {"str", "int", "null"}

\* Column affinity TEXT: a number is stored as its text.
TextAffinity(v) == IF v.t = "int" THEN PyStr(IntToText(v.n)) ELSE v

\* Affinity INTEGER / NUMERIC: text that is a well-formed integer becomes it.
NumericAffinity(v) ==
    IF v.t = "str" /\ \E k \in Numerals : IntToText(k) = v.s
    THEN PyInt(CHOOSE k \in Numerals : IntToText(k) = v.s)
    ELSE v

\* identifier = ?  against the INTEGER PRIMARY KEY column; NULL matches nothing.
IdentifierEquals(rowid, v) == NumericAffinity(v) = PyInt(rowid)

-----------------------------------------------------------------------------
(* Schema and seed data *)

Account(id, name, email, phone, status, now) ==
    [identifier |-> id, full_name |-> PyStr(name), contact_email |-> PyStr(email),
     contact_phone |-> PyStr(phone), account_status |-> PyStr(status),
     creation_timestamp |-> now, last_modified_timestamp |-> now]

account_data(now) == <<
    Account(1, "Alice Premium", "alice@example.com", "111-111-1111", "active", now),
    Account(2, "Bob Standard", "bob@example.com", "222-222-2222", "active", now),
    Account(3, "Charlie Disabled", "charlie@example.com", "333-333-3333", "disabled", now),
    Account(4, "Diana Premium", "diana@example.com", "444-444-4444", "active", now),
    Account(5, "Eve Standard", "eve@example.com", "555-555-5555", "active", now),
    Account(12345, "Priya Patel (Premium)", "priya@example.com", "555-0999", "active", now) >>

Ticket(id, account, description, status, priority, now) ==
    [ticket_id |-> id, account_id |-> PyInt(account), description |-> PyStr(description),
     status |-> PyStr(status), priority_level |-> PyStr(priority),
     submission_timestamp |-> now]

ticket_data(now) == <<
    Ticket(1, 1, "Billing duplicate charge", "open", "high", now),
    Ticket(2, 1, "Unable to login", "in_progress", "medium", now),
    Ticket(3, 2, "Request upgrade", "open", "low", now),
    Ticket(4, 4, "Critical outage", "open", "high", now),
    Ticket(5, 5, "Password reset", "open", "low", now),
    Ticket(6, 12345, "Account upgrade assistance", "open", "medium", now),
    Ticket(7, 12345, "High priority refund review", "open", "high", now) >>

\* CREATE TABLE customer_accounts, CREATE TABLE support_tickets
Tables == {"customer_accounts", "support_tickets"}

\* The store initialize_database_schema leaves when it runs at instant now.
initialize_database_schema(now) ==
    [accounts |-> account_data(now), tickets |-> ticket_data(now),
     seq |-> Len(ticket_data(now)), tables |-> Tables]

-----------------------------------------------------------------------------
(* str.lower() *)

\* TLA+ strings are atomic: Spelling gives the characters of the texts that
\* reach str.lower() in this model.
Spelling == [
    low |-> <<"l", "o", "w">>, LOW |-> <<"L", "O", "W">>, Low |-> <<"L", "o", "w">>,
    medium |-> <<"m", "e", "d", "i", "u", "m">>,
    Medium |-> <<"M", "e", "d", "i", "u", "m">>,
    high |-> <<"h", "i", "g", "h">>, HIGH |-> <<"H", "I", "G", "H">>,
    hIgH |-> <<"h", "I", "g", "H">>,
    urgent |-> <<"u", "r", "g", "e", "n", "t">>, URGENT |-> <<"U", "R", "G", "E", "N", "T">>,
    highest |-> <<"h", "i", "g", "h", "e", "s", "t">>,
    lo |-> <<"l", "o">>, LO |-> <<"L", "O">> ] @@ ("" :> <<>>)

UpperCase == <<"D", "E", "G", "H", "I", "L", "M", "N", "O", "R", "T", "U", "W">>
LowerCase == <<"d", "e", "g", "h", "i", "l", "m", "n", "o", "r", "t", "u", "w">>

LowerChar(c) == IF \E i \in DOMAIN UpperCase : UpperCase[i] = c
                THEN LowerCase[CHOOSE i \in DOMAIN UpperCase : UpperCase[i] = c]
                ELSE c

\* Mutant: the priority is not normalised.
LowerSkipped(s) == s

\* s.lower(): every cased character replaced by its lowercase.
Lower(s) ==
    LET cs == Spelling[s]
        ls == [i \in DOMAIN cs |-> LowerChar(cs[i])]
    IN CHOOSE u \in DOMAIN Spelling : Spelling[u] = ls

-----------------------------------------------------------------------------
(* Handler outcomes: what a handler returned or raised, the store it left,
   and the connections it opened and closed. *)

Returned(env, db, opened, closed) ==
    [exc |-> "", msg |-> "", ret |-> env, accounts |-> db.accounts,
     tickets |-> db.tickets, seq |-> db.seq, opened |-> opened, closed |-> closed]

Raised(kind, msg, db, opened, closed) ==
    [exc |-> kind, msg |-> msg, accounts |-> db.accounts,
     tickets |-> db.tickets, seq |-> db.seq, opened |-> opened, closed |-> closed]

\* type(v).__name__
TypeName(v) == IF v.t = "null" THEN "NoneType" ELSE v.t

BindingError(v) ==
    "Error binding parameter: type '" \o TypeName(v) \o "' is not supported"

\* Mutant: the WHERE clause left out.
SelectAnyAccount(accounts, customer_id) == accounts

\* SELECT * FROM customer_accounts WHERE identifier=?
SelectAccount(accounts, customer_id) ==
    SelectSeq(accounts, LAMBDA r : IdentifierEquals(r.identifier, customer_id))

\* Mutant: the row is returned without testing that there is one.
fetch_customer_record_unchecked(db, a, now) ==
    IF ~Bindable(a.customer_id)
    THEN Raised("ProgrammingError", BindingError(a.customer_id), db, 1, 0)
    ELSE LET rows == SelectSeq(db.accounts,
                               LAMBDA r : IdentifierEquals(r.identifier, a.customer_id))
         IN Returned([success |-> TRUE,
                      data |-> IF rows # <<>> THEN rows[1] ELSE PyNone], db, 1, 1)

\* Mutant: the lookup stamps the rows it reads as modified.
fetch_customer_record_stamping(db, a, now) ==
    IF ~Bindable(a.customer_id)
    THEN Raised("ProgrammingError", BindingError(a.customer_id), db, 1, 0)
    ELSE LET rows == SelectAccount(db.accounts, a.customer_id)
             stamped == [i \in DOMAIN db.accounts |->
                           IF IdentifierEquals(db.accounts[i].identifier, a.customer_id)
                           THEN [db.accounts[i] EXCEPT !.last_modified_timestamp = now + 1]
                           ELSE db.accounts[i]]
         IN IF rows # <<>>
            THEN Returned([success |-> TRUE, data |-> rows[1]],
                          [db EXCEPT !.accounts = stamped], 1, 1)
            ELSE Returned([success |-> FALSE,
                           error |-> "Account with ID " \o Format(a.customer_id)
                                     \o " not found"], db, 1, 1)

\* _fetch_customer_record(customer_id)
fetch_customer_record(db, a, now) ==
    IF ~Bindable(a.customer_id)
    THEN Raised("ProgrammingError", BindingError(a.customer_id), db, 1, 0)
    ELSE LET rows == SelectAccount(db.accounts, a.customer_id)
         IN IF rows # <<>>
            THEN Returned([success |-> TRUE, data |-> rows[1]], db, 1, 1)
            ELSE Returned([success |-> FALSE,
                           error |-> "Account with ID " \o Format(a.customer_id)
                                     \o " not found"], db, 1, 1)

valid_fields == {"full_name", "contact_email", "contact_phone", "account_status"}

\* updates = {k: v for k, v in data.items() if k in valid_fields}
Updates(data) == [k \in DOMAIN data.items \cap valid_fields |-> data.items[k]]

\* Mutant: the SET clause without the caller's fields.
UpdateRowTimestampOnly(row, updates, now) ==
    [row EXCEPT !.last_modified_timestamp = now]

\* Mutant: the SET clause without last_modified_timestamp.
UpdateRowFieldsOnly(row, updates, now) ==
    [k \in DOMAIN row |-> IF k \in DOMAIN updates THEN TextAffinity(updates[k]) ELSE row[k]]

\* Mutant: the SET clause names every whitelisted column, the ones the
\* caller left out with NULL.
UpdateRowAllColumns(row, updates, now) ==
    [k \in DOMAIN row |->
        IF k \in DOMAIN updates THEN TextAffinity(updates[k])
        ELSE IF k \in valid_fields THEN PyNone
        ELSE IF k = "last_modified_timestamp" THEN now
        ELSE row[k]]

\* UPDATE customer_accounts SET <updates>, last_modified_timestamp=? WHERE identifier=?
UpdateRow(row, updates, now) ==
    [k \in DOMAIN row |->
        IF k \in DOMAIN updates THEN TextAffinity(updates[k])
        ELSE IF k = "last_modified_timestamp" THEN now
        ELSE row[k]]

\* Mutant: the WHERE clause left out, every row updated.
UpdateAllAccounts(accounts, customer_id, updates, now) ==
    [i \in DOMAIN accounts |-> UpdateRow(accounts[i], updates, now)]

\* Mutant: INSERT OR REPLACE instead of UPDATE, a missing row is created.
UpsertAccounts(accounts, customer_id, updates, now) ==
    IF \E i \in DOMAIN accounts : IdentifierEquals(accounts[i].identifier, customer_id)
       \/ customer_id.t # "int"
    THEN [i \in DOMAIN accounts |->
            IF IdentifierEquals(accounts[i].identifier, customer_id)
            THEN UpdateRow(accounts[i], updates, now)
            ELSE accounts[i]]
    ELSE Append(accounts,
                UpdateRow([identifier |-> customer_id.n, full_name |-> PyNone,
                           contact_email |-> PyNone, contact_phone |-> PyNone,
                           account_status |-> PyNone, creation_timestamp |-> now,
                           last_modified_timestamp |-> now], updates, now))

UpdateAccounts(accounts, customer_id, updates, now) ==
    [i \in DOMAIN accounts |->
        IF IdentifierEquals(accounts[i].identifier, customer_id)
        THEN UpdateRow(accounts[i], updates, now)
        ELSE accounts[i]]

\* Mutant: the empty update is not rejected.
NoUpdatesUnchecked(updates) == FALSE

\* if not updates:
NoUpdates(updates) == DOMAIN updates = {}

\* _modify_customer_details(customer_id, data)
modify_customer_details(db, a, now) ==
    IF a.data.t # "dict"
    THEN Raised("AttributeError", "'" \o TypeName(a.data) \o "' object has no attribute 'items'",
                db, 1, 0)
    ELSE LET updates == Updates(a.data) IN
    IF NoUpdates(updates)
    THEN Returned([success |-> FALSE, error |-> "No valid fields provided for update."],
                  db, 1, 1)
    ELSE IF \E k \in DOMAIN updates : ~Bindable(updates[k])
    THEN Raised("ProgrammingError",
                BindingError(updates[CHOOSE k \in DOMAIN updates : ~Bindable(updates[k])]),
                db, 1, 0)
    ELSE IF ~Bindable(a.customer_id)
    THEN Raised("ProgrammingError", BindingError(a.customer_id), db, 1, 0)
    ELSE LET written == [db EXCEPT !.accounts =
                            UpdateAccounts(db.accounts, a.customer_id, updates, now)]
             rows == SelectAccount(written.accounts, a.customer_id)
         IN IF rows # <<>>
            THEN Returned([success |-> TRUE, data |-> rows[1]], written, 1, 1)
            ELSE Returned([success |-> FALSE,
                           error |-> "Account " \o Format(a.customer_id)
                                     \o " not found or update failed."], written, 1, 1)

\* Mutant: INSERT OR REPLACE under the largest ticket_id in use, the newest
\* ticket is overwritten.
InsertTicketReplacing(db, customer_id, issue, normalized_priority, current_utc) ==
    [db EXCEPT
        !.tickets = [@ EXCEPT ![Len(@)] =
                        [ticket_id |-> db.seq,
                         account_id |-> NumericAffinity(customer_id),
                         description |-> TextAffinity(issue),
                         status |-> PyStr("open"),
                         priority_level |-> PyStr(normalized_priority),
                         submission_timestamp |-> current_utc]]]

\* Mutant: account_id declared REFERENCES customer_accounts and enforced, a
\* ticket for a missing account is not inserted.
InsertTicketChecked(db, customer_id, issue, normalized_priority, current_utc) ==
    IF \E i \in DOMAIN db.accounts :
          IdentifierEquals(db.accounts[i].identifier, customer_id)
    THEN [db EXCEPT
            !.tickets = Append(@, [ticket_id |-> db.seq + 1,
                                   account_id |-> NumericAffinity(customer_id),
                                   description |-> TextAffinity(issue),
                                   status |-> PyStr("open"),
                                   priority_level |-> PyStr(normalized_priority),
                                   submission_timestamp |-> current_utc]),
            !.seq = db.seq + 1]
    ELSE db

\* INSERT INTO support_tickets (...) VALUES (?, ?, ?, ?, ?): AUTOINCREMENT gives
\* the row one more than the largest ticket_id ever used.
InsertTicket(db, customer_id, issue, normalized_priority, current_utc) ==
    [db EXCEPT
        !.tickets = Append(@, [ticket_id |-> db.seq + 1,
                               account_id |-> NumericAffinity(customer_id),
                               description |-> TextAffinity(issue),
                               status |-> PyStr("open"),
                               priority_level |-> PyStr(normalized_priority),
                               submission_timestamp |-> current_utc]),
        !.seq = db.seq + 1]

\* Mutant: membership tested in the text "low medium high", not in the list.
ValidPrioritySubstring(normalized_priority) ==
    normalized_priority \in {"low", "medium", "high", "lo", ""}

\* normalized_priority in ["low", "medium", "high"]
ValidPriority(normalized_priority) == normalized_priority \in {"low", "medium", "high"}

\* _register_new_ticket(customer_id, issue, priority="medium")
register_new_ticket(db, a, now) ==
    IF a.priority.t # "str"
    THEN Raised("AttributeError",
                "'" \o TypeName(a.priority) \o "' object has no attribute 'lower'", db, 1, 0)
    ELSE LET normalized_priority == Lower(a.priority.s) IN
    IF ~ValidPriority(normalized_priority)
    THEN Returned([success |-> FALSE,
                   error |-> "Priority must be 'low', 'medium', or 'high'."], db, 1, 1)
    ELSE IF ~Bindable(a.customer_id)
    THEN Raised("ProgrammingError", BindingError(a.customer_id), db, 1, 0)
    ELSE IF ~Bindable(a.issue)
    THEN Raised("ProgrammingError", BindingError(a.issue), db, 1, 0)
    ELSE LET written == InsertTicket(db, a.customer_id, a.issue, normalized_priority, now)
             new_ticket_id == written.seq
             rows == SelectSeq(written.tickets, LAMBDA r : r.ticket_id = new_ticket_id)
         IN IF rows # <<>>
            THEN Returned([success |-> TRUE, data |-> rows[1]], written, 1, 1)
            ELSE Returned([success |-> FALSE,
                           error |-> "Database error: Failed to log new ticket."],
                          written, 1, 1)

\* bool(v)
Truthy(v) == CASE v.t = "str" -> v.s # ""
               [] v.t = "int" -> v.n # 0
               [] v.t = "null" -> FALSE
               [] v.t = "list" -> TRUE
               [] OTHER -> DOMAIN v.items # {}

\* Mutant: the LIMIT clause is dropped.
LimitIgnored(rows, n) == rows

\* LIMIT n: a negative n is no limit.
Limit(rows, n) == IF n < 0 \/ n >= Len(rows) THEN rows ELSE SubSeq(rows, 1, n)

\* _search_customer_records(status=None, limit=100)
search_customer_records(db, a, now) ==
    IF Truthy(a.status) /\ ~Bindable(a.status)
    THEN Raised("ProgrammingError", BindingError(a.status), db, 1, 0)
    ELSE IF ~Bindable(a.limit)
    THEN Raised("ProgrammingError", BindingError(a.limit), db, 1, 0)
    ELSE IF NumericAffinity(a.limit).t # "int"
    THEN Raised("IntegrityError", "datatype mismatch", db, 1, 0)
    ELSE LET matching ==
                IF Truthy(a.status)
                THEN SelectSeq(db.accounts,
                               LAMBDA r : r.account_status = TextAffinity(a.status))
                ELSE db.accounts
             rows == Limit(matching, NumericAffinity(a.limit).n)
         IN Returned([success |-> TRUE, data |-> rows, total_count |-> Len(rows)],
                     db, 1, 1)

\* Mutant: the ORDER BY clause is dropped, rows come in rowid order.
Unordered(rows) == rows

\* ORDER BY submission_timestamp DESC as SQLite's sorter does it: rows of one
\* timestamp stay in rowid order.
RECURSIVE OrderBySubmissionDesc(_)
OrderBySubmissionDesc(rows) ==
    IF rows = <<>> THEN <<>>
    ELSE LET r == rows[Len(rows)]
             sorted == OrderBySubmissionDesc(SubSeq(rows, 1, Len(rows) - 1))
             k == Cardinality({i \in DOMAIN sorted :
                                 sorted[i].submission_timestamp >= r.submission_timestamp})
         IN SubSeq(sorted, 1, k) \o <<r>> \o SubSeq(sorted, k + 1, Len(sorted))

\* _retrieve_ticket_history(customer_id)
retrieve_ticket_history(db, a, now) ==
    IF ~Bindable(a.customer_id)
    THEN Raised("ProgrammingError", BindingError(a.customer_id), db, 1, 0)
    ELSE LET key == NumericAffinity(a.customer_id)
             rows == OrderBySubmissionDesc(
                        SelectSeq(db.tickets,
                                  LAMBDA r : key.t # "null" /\ r.account_id = key))
         IN Returned([success |-> TRUE, data |-> rows, total_count |-> Len(rows)],
                     db, 1, 1)

-----------------------------------------------------------------------------
(* The dispatcher *)

\* self.operations: the handler names by operation name.
operations == [get_customer |-> "_fetch_customer_record",
               list_customers |-> "_search_customer_records",
               update_customer |-> "_modify_customer_details",
               create_ticket |-> "_register_new_ticket",
               get_customer_history |-> "_retrieve_ticket_history"]

NoArgs == [k \in {} |-> PyNone]

\* The handlers' parameters: the required ones and the defaults of the others.
Required(handler) ==
    CASE handler = "_fetch_customer_record" -> {"customer_id"}
      [] handler = "_search_customer_records" -> {}
      [] handler = "_modify_customer_details" -> {"customer_id", "data"}
      [] handler = "_register_new_ticket" -> {"customer_id", "issue"}
      [] handler = "_retrieve_ticket_history" -> {"customer_id"}

Defaults(handler) ==
    CASE handler = "_search_customer_records" -> [status |-> PyNone, limit |-> PyInt(100)]
      [] handler = "_register_new_ticket" -> [priority |-> PyStr("medium")]
      [] OTHER -> NoArgs

\* The table a handler's statements name.
TableOf(handler) ==
    IF handler \in {"_register_new_ticket", "_retrieve_ticket_history"}
    THEN "support_tickets" ELSE "customer_accounts"

\* The handler comes to execute a statement: _register_new_ticket returns
\* before on an invalid priority, _modify_customer_details on no valid field,
\* and both fault before on an argument of the wrong type.
ReachesStatement(handler, a) ==
    CASE handler = "_register_new_ticket" ->
            a.priority.t = "str" /\ ValidPriority(Lower(a.priority.s))
      [] handler = "_modify_customer_details" ->
            a.data.t = "dict" /\ ~NoUpdates(Updates(a.data))
      [] OTHER -> TRUE

\* handler(**kwargs): Python binds the keywords before the body runs, and
\* raises TypeError on a keyword the handler does not take or a missing one.
CallHandler(handler, kwargs, db, now) ==
    IF ~(DOMAIN kwargs \subseteq Required(handler) \cup DOMAIN Defaults(handler))
    THEN Raised("TypeError", handler \o "() got an unexpected keyword argument", db, 0, 0)
    ELSE IF ~(Required(handler) \subseteq DOMAIN kwargs)
    THEN Raised("TypeError", handler \o "() missing required positional argument", db, 0, 0)
    ELSE LET a == kwargs @@ Defaults(handler) IN
         IF TableOf(handler) \notin db.tables /\ ReachesStatement(handler, a)
         THEN Raised("OperationalError", "no such table: " \o TableOf(handler), db, 1, 0)
         ELSE
         CASE handler = "_fetch_customer_record" -> fetch_customer_record(db, a, now)
           [] handler = "_search_customer_records" -> search_customer_records(db, a, now)
           [] handler = "_modify_customer_details" -> modify_customer_details(db, a, now)
           [] handler = "_register_new_ticket" -> register_new_ticket(db, a, now)
           [] handler = "_retrieve_ticket_history" -> retrieve_ticket_history(db, a, now)

\* What execute_operation gives its caller: an envelope, or a fault.
Envelope(env, o) ==
    [raised |-> FALSE, exc |-> "", ret |-> env, accounts |-> o.accounts,
     tickets |-> o.tickets, seq |-> o.seq, opened |-> o.opened, closed |-> o.closed]

Escaped(kind, db) ==
    [raised |-> TRUE, exc |-> kind, accounts |-> db.accounts,
     tickets |-> db.tickets, seq |-> db.seq, opened |-> 0, closed |-> 0]

\* Mutant: no membership test, the lookup's KeyError caught by the try block.
UnknownOperationAsKeyError(operation_name, db) ==
    Envelope([success |-> FALSE,
              error |-> "Operation execution failed: KeyError - "
                        \o Format(operation_name)],
             Raised("", "", db, 0, 0))

\* if operation_name not in self.operations: return {...}
UnknownOperation(operation_name, db) ==
    Envelope([success |-> FALSE,
              error |-> "Unknown database operation: " \o Format(operation_name)],
             Raised("", "", db, 0, 0))

\* Mutant: the failure envelope also carries an empty data.
ExecutionFailedWithData(o) ==
    Envelope([success |-> FALSE, data |-> PyNone,
              error |-> "Operation execution failed: " \o o.exc \o " - " \o o.msg], o)

\* except Exception as e: return {...}
ExecutionFailed(o) ==
    Envelope([success |-> FALSE,
              error |-> "Operation execution failed: " \o o.exc \o " - " \o o.msg], o)

IsKnown(operation_name) == operation_name.t = "str" /\ operation_name.s \in DOMAIN operations

\* The body of execute_operation(operation_name, **kwargs).
execute_operation_body(operation_name, kwargs, db, now) ==
    IF ~IsKnown(operation_name)
    THEN UnknownOperation(operation_name, db)
    ELSE LET o == CallHandler(operations[operation_name.s], kwargs, db, now)
         IN IF o.exc # "" THEN ExecutionFailed(o) ELSE Envelope(o.ret, o)

\* execute_operation(operation_name, **kwargs) as its callers invoke it: a
\* keyword named like one of its own parameters cannot be bound, and the
\* TypeError is raised at the call, before the body and its try block.
execute_operation(operation_name, kwargs, db, now) ==
    IF DOMAIN kwargs \cap {"self", "operation_name"} # {}
    THEN Escaped("TypeError", db)
    ELSE execute_operation_body(operation_name, kwargs, db, now)

-----------------------------------------------------------------------------
(* The HTTP endpoint *)

\* A request body that json() cannot parse: the bytes {tool:
NotJson == [t |-> "bytes"]

\* No request handled yet.
NoRequest == [t |-> "none"]

\* JSONResponse(result)
Ok(result) == [status_code |-> 200, content |-> result]

\* Mutant: the fault is left to the server's default error response.
InvalidRequestUncaught(detail) ==
    [status_code |-> 500, content |-> [success |-> FALSE, error |-> "Internal Server Error"]]

\* except Exception as e: JSONResponse({"success": False, "error": ...}, status_code=400)
InvalidRequest(detail) ==
    [status_code |-> 400,
     content |-> [success |-> FALSE, error |-> "Invalid request format: " \o detail]]

\* What one run of call_operation_handler did: whether it came to call
\* execute_operation, with which arguments and outcome, the text of the
\* exception it caught, and its response.
Handled(called, op_name, op_params, out, detail, response) ==
    [called |-> called, op_name |-> op_name, op_params |-> op_params, out |-> out,
     detail |-> detail, response |-> response]

Rejected(kind, op_name, detail, db) ==
    Handled(FALSE, op_name, NoArgs, Escaped(kind, db), detail, InvalidRequest(detail))

\* call_operation_handler(request), POST /call
call_operation_handler(request_body, db, now) ==
    IF request_body.t = "bytes"
    THEN Rejected("JSONDecodeError", PyNone,
                  "Expecting property name enclosed in double quotes: "
                  \o "line 1 column 2 (char 1)", db)
    ELSE IF request_body.t # "dict"
    THEN Rejected("AttributeError", PyNone,
                  "'" \o TypeName(request_body) \o "' object has no attribute 'get'", db)
    ELSE LET op_name == IF "tool" \in DOMAIN request_body.items
                        THEN request_body.items.tool ELSE PyNone
             op_params == IF "params" \in DOMAIN request_body.items
                          THEN request_body.items.params ELSE PyDict(NoArgs)
         IN IF op_params.t # "dict"
            THEN Rejected("TypeError", op_name,
                          "mcp_server.DataAccessService.execute_operation() "
                          \o "argument after ** must be a mapping, not "
                          \o TypeName(op_params), db)
            ELSE LET result == execute_operation(op_name, op_params.items, db, now)
                     detail == "DataAccessService.execute_operation() got multiple "
                               \o "values for argument '"
                               \o (IF "self" \in DOMAIN op_params.items
                                   THEN "self" ELSE "operation_name") \o "'"
                 IN IF result.raised
                    THEN Handled(TRUE, op_name, op_params.items, result, detail,
                                 InvalidRequest(detail))
                    ELSE Handled(TRUE, op_name, op_params.items, result, "",
                                 Ok(result.ret))

-----------------------------------------------------------------------------
(* The tool adapter (service_tools.py) *)

\* A text: unit repeated times times.  Text(s) is the text s itself.
Repeat(unit, times) == [unit |-> unit, times |-> times]
Text(s) == Repeat(s, 1)

\* sys.getrecursionlimit(): the JSON decoder cannot follow a nesting this deep.
RecursionLimit == 1000

\* The valid JSON texts among the payloads, with the values they parse to.
JsonTexts ==
    ("{\"contact_email\": \"new@email.com\"}"
        :> PyDict([contact_email |-> PyStr("new@email.com")]))
    @@ ("{\"full_name\": \"Al\", \"identifier\": 7}"
        :> PyDict([full_name |-> PyStr("Al"), identifier |-> PyInt(7)]))
    @@ ("{}" :> PyDict(NoArgs))
    @@ ("[1]" :> PyList)
    @@ ("null" :> PyNone)
    @@ ("5" :> PyInt(5))

\* json.loads(text), for the texts of JsonTexts, texts that are not JSON, and
\* runs of "[": a run as long as the recursion limit raises RecursionError
\* before the decoder reaches the end of the text.
json_loads(text) ==
    IF text.unit = "[" /\ text.times >= RecursionLimit
    THEN [raised |-> "RecursionError"]
    ELSE IF text.times = 1 /\ text.unit \in DOMAIN JsonTexts
    THEN [raised |-> "", value |-> JsonTexts[text.unit]]
    ELSE [raised |-> "JSONDecodeError"]

\* A string the adapter returns: the literal text it begins with, and what
\* follows (an error text, or the data json.dumps renders).
Str(lead, rest) == [lead |-> lead, rest |-> rest]

\* What an adapter function does before any request: send one, return a
\* string, or raise.
Send(operation_name, parameters) ==
    [stage |-> "send", exc |-> "", result |-> Str("", ""),
     request |-> PyDict([tool |-> PyStr(operation_name), params |-> PyDict(parameters)])]

Return(result) ==
    [stage |-> "return", exc |-> "", result |-> result, request |-> NoRequest]

Raise(exc) ==
    [stage |-> "raise", exc |-> exc, result |-> Str("", ""), request |-> NoRequest]

\* fetch_customer_data(customer_id)
fetch_customer_data(customer_id) ==
    Send("get_customer", [customer_id |-> customer_id])

\* search_customer_accounts(account_status=None, result_limit=10)
search_customer_accounts(account_status, result_limit) ==
    Send("list_customers",
         IF Truthy(account_status)
         THEN [limit |-> result_limit, status |-> account_status]
         ELSE [limit |-> result_limit])

\* modify_customer_record(customer_id, update_payload)
modify_customer_record(customer_id, update_payload) ==
    LET payload_dict == json_loads(update_payload) IN
    IF payload_dict.raised = "JSONDecodeError"
    THEN Return(Str("Parsing Error: ",
                    "The provided data for update must be a valid JSON string."))
    ELSE IF payload_dict.raised # ""
    THEN Raise(payload_dict.raised)
    ELSE Send("update_customer",
              [customer_id |-> customer_id, data |-> payload_dict.value])

\* register_support_issue(customer_id, query_description, urgency_level="medium")
register_support_issue(customer_id, query_description, urgency_level) ==
    Send("create_ticket", [customer_id |-> customer_id, issue |-> query_description,
                           priority |-> urgency_level])

\* retrieve_customer_history(customer_id)
retrieve_customer_history(customer_id) ==
    Send("get_customer_history", [customer_id |-> customer_id])

\* _execute_mcp_operation_async, once the response has arrived:
\* raise_for_status() raises on a 4xx or 5xx status, json.dumps renders a
\* list (the replies with total_count) from "[" on and a dict from "{" on.
OperationResult(response) ==
    IF response.status_code >= 400
    THEN Str("Service Execution Failure: ",
             "Client error '400 Bad Request' for url 'http://127.0.0.1:8000/call'")
    ELSE IF response.content.success
    THEN Str(IF "total_count" \in DOMAIN response.content THEN "[" ELSE "{",
             response.content.data)
    ELSE Str("Operation Error: ", response.content.error)

\* _execute_mcp_operation_async when the endpoint cannot be reached.
Unreachable == Str("Service Execution Failure: ", "All connection attempts failed")

\* No adapter function in use: the request came from another client.
NoTool == [function |-> "", payload |-> Text(""), stage |-> "", exc |-> "",
           result |-> Str("", ""), request |-> NoRequest]

\* The adapter function named function, called with the payload it parses
\* (modify_customer_record only), after its first stage came to prepared.
Tool(function, payload, prepared) ==
    [function |-> function, payload |-> payload, stage |-> prepared.stage,
     exc |-> prepared.exc, result |-> prepared.result, request |-> prepared.request]

-----------------------------------------------------------------------------
(* Calls *)

Store == [accounts |-> customer_accounts, tickets |-> support_tickets, seq |-> ticket_seq,
          tables |-> tables]

\* One request to POST /call, handled to its end: the handlers have no await
\* in them, so the server runs each without interleaving another.  tool is
\* the adapter function that sent the request, which returns the string
\* OperationResult makes of the response.
Serve(request_body, now, tool) ==
    /\ nops < MaxOps
    /\ \E h \in {call_operation_handler(request_body, Store, now)} :
          /\ customer_accounts' = h.out.accounts
          /\ support_tickets' = h.out.tickets
          /\ ticket_seq' = h.out.seq
          /\ clock' = now
          /\ connections' = connections + h.out.opened - h.out.closed
          /\ last' = [called |-> h.called, operation_name |-> h.op_name,
                      kwargs |-> h.op_params, now |-> now, clock_before |-> clock,
                      before |-> Store, out |-> h.out, request |-> request_body,
                      detail |-> h.detail, response |-> h.response,
                      tool |-> IF tool.function = "" THEN tool
                               ELSE [tool EXCEPT !.result = OperationResult(h.response)]]
          /\ nops' = nops + 1

\* A request of a client other than the adapter, handled as it arrives.
Post(request_body, now) ==
    /\ Serve(request_body, now, NoTool)
    /\ UNCHANGED <<tables, pc, requests>>

\* A call of an adapter function that ends without a request handled: the
\* function returned or raised before sending, or the endpoint was not
\* reached.
Unsent(tool) ==
    /\ nops < MaxOps
    /\ UNCHANGED <<customer_accounts, support_tickets, ticket_seq, clock, connections,
                   tables, pc, requests>>
    /\ last' = [called |-> FALSE, operation_name |-> PyNone, kwargs |-> NoArgs,
                now |-> clock, clock_before |-> clock, before |-> Store,
                out |-> Escaped("", Store), request |-> NoRequest, detail |-> "",
                response |-> Ok(PyNone), tool |-> tool]
    /\ nops' = nops + 1

\* The request {"tool": operation_name, "params": kwargs}, which makes the
\* endpoint call execute_operation(operation_name, **kwargs).
Call(operation_name, kwargs, now) ==
    Post(PyDict([tool |-> operation_name, params |-> PyDict(kwargs)]), now)

\* datetime.now(): the wall clock, read again, has advanced or still shows
\* the same instant.
Now == {clock, clock + 1}

CustomerIds == {PyInt(1), PyInt(2), PyInt(99), PyStr("2"), PyStr("abc"), PyNone, PyList}

GetCustomerCalls ==
    {[customer_id |-> c] : c \in CustomerIds}
    \cup {NoArgs,
          [customer_id |-> PyInt(1), verbose |-> PyInt(1)],
          [customer_id |-> PyInt(1), operation_name |-> PyStr("get_customer")]}

ListCustomersCalls ==
    {NoArgs,
     [status |-> PyStr("active")],
     [status |-> PyStr("disabled"), limit |-> PyInt(1)],
     [status |-> PyStr(""), limit |-> PyInt(2)],
     [limit |-> PyInt(-1)],
     [limit |-> PyStr("ten")],
     [status |-> PyList]}

UpdateData ==
    {PyDict(NoArgs),
     PyDict([contact_email |-> PyStr("new@email.com")]),
     PyDict([identifier |-> PyInt(7), nickname |-> PyStr("Al")]),
     PyDict([account_status |-> PyStr("disabled"), identifier |-> PyInt(7),
             last_modified_timestamp |-> PyStr("never")]),
     PyDict([full_name |-> PyInt(123)]),
     PyDict([contact_phone |-> PyNone]),
     PyDict([full_name |-> PyList, contact_email |-> PyStr("new@email.com")])}

UpdateCustomerCalls ==
    {[customer_id |-> c, data |-> d] : c \in {PyInt(1), PyInt(99)}, d \in UpdateData}
    \cup {[customer_id |-> PyStr("2"), data |-> PyDict([contact_email |-> PyStr("new@email.com")])],
          [customer_id |-> PyList, data |-> PyDict([contact_email |-> PyStr("new@email.com")])],
          [customer_id |-> PyInt(1), data |-> PyStr("contact_email")],
          [customer_id |-> PyInt(1)],
          [customer_id |-> PyInt(1), data |-> PyDict(NoArgs), self |-> PyNone]}

Priorities == {"high", "HIGH", "hIgH", "Medium", "low", "LO", "urgent", "URGENT", "highest", ""}

CreateTicketCalls ==
    {[customer_id |-> PyInt(1), issue |-> PyStr("Billing issue"), priority |-> PyStr(p)] :
        p \in Priorities}
    \cup {[customer_id |-> PyInt(99), issue |-> PyStr("Billing issue")],
          [customer_id |-> PyStr("abc"), issue |-> PyInt(5), priority |-> PyStr("low")],
          [customer_id |-> PyInt(1), issue |-> PyStr("Billing issue"), priority |-> PyInt(1)],
          [customer_id |-> PyInt(1), issue |-> PyStr("Billing issue"), priority |-> PyNone],
          [customer_id |-> PyList, issue |-> PyStr("Billing issue"), priority |-> PyStr("high")],
          [customer_id |-> PyInt(1), issue |-> PyList],
          [customer_id |-> PyInt(1), priority |-> PyStr("high")],
          [customer_id |-> PyInt(1), issue |-> PyStr("x"), urgency |-> PyStr("high")]}

GetCustomerHistoryCalls ==
    {[customer_id |-> c] : c \in {PyInt(1), PyInt(3), PyInt(99), PyStr("abc"), PyNone, PyList}}
    \cup {NoArgs}

UnknownNames == {PyStr("nonexistent_op"), PyStr("GET_CUSTOMER"), PyStr(""), PyNone}

UnknownCalls == {NoArgs, [customer_id |-> PyInt(1)], [customer_id |-> PyList],
                 [operation_name |-> PyStr("get_customer")]}

GetCustomer == \E kw \in GetCustomerCalls : Call(PyStr("get_customer"), kw, clock)

ListCustomers == \E kw \in ListCustomersCalls : Call(PyStr("list_customers"), kw, clock)

UpdateCustomer ==
    \E kw \in UpdateCustomerCalls, now \in Now : Call(PyStr("update_customer"), kw, now)

CreateTicket ==
    \E kw \in CreateTicketCalls, now \in Now : Call(PyStr("create_ticket"), kw, now)

GetCustomerHistory ==
    \E kw \in GetCustomerHistoryCalls : Call(PyStr("get_customer_history"), kw, clock)

CallUnknown == \E name \in UnknownNames, kw \in UnknownCalls : Call(name, kw, clock)

\* Bodies of other shapes: not JSON, JSON but not an object, params not a
\* mapping, and objects without the key tool or params.
OtherBodies ==
    {NotJson, PyList, PyStr("get_customer"), PyInt(1), PyNone,
     PyDict([tool |-> PyStr("get_customer"), params |-> PyStr("customer_id=1")]),
     PyDict([tool |-> PyStr("create_ticket"), params |-> PyList]),
     PyDict([tool |-> PyStr("list_customers"), params |-> PyNone]),
     PyDict([params |-> PyInt(1)]),
     PyDict([tool |-> PyStr("list_customers")]),
     PyDict([params |-> PyDict([customer_id |-> PyInt(1)])]),
     PyDict(NoArgs)}

PostOther == \E request_body \in OtherBodies : Post(request_body, clock)

\* The payloads given to modify_customer_record: JSON texts, texts that are
\* not JSON, and the text of a thousand "[".
Payloads ==
    {Text(s) : s \in DOMAIN JsonTexts}
    \cup {Text(""), Text("{'full_name': 'Al'}"), Text("full_name=Al"),
          Text("{\"full_name\": \"Al\""), Text("["), Repeat("[", RecursionLimit)}

\* The calls of the adapter functions.
ToolCalls ==
    {Tool("fetch_customer_data", Text(""), fetch_customer_data(c)) :
        c \in {PyInt(1), PyInt(99)}}
    \cup {Tool("search_customer_accounts", Text(""), search_customer_accounts(s, l)) :
            s \in {PyNone, PyStr(""), PyStr("disabled")}, l \in {PyInt(10), PyInt(1)}}
    \cup {Tool("modify_customer_record", p, modify_customer_record(c, p)) :
            c \in {PyInt(1), PyInt(99)}, p \in Payloads}
    \cup {Tool("register_support_issue", Text(""),
               register_support_issue(PyInt(1), PyStr("x"), p)) :
            p \in {PyStr("medium"), PyStr("urgent")}}
    \cup {Tool("retrieve_customer_history", Text(""), retrieve_customer_history(c)) :
            c \in {PyInt(1), PyInt(99)}}

Writers == {"modify_customer_record", "register_support_issue"}

\* An adapter function is called.  Its request, if it sends one, reaches the
\* endpoint or does not.
UseTool ==
    \E tool \in ToolCalls, now \in Now, reached \in BOOLEAN :
        /\ tool.function \notin Writers => now = clock
        /\ IF tool.stage = "send" /\ reached
           THEN Serve(tool.request, now, tool) /\ UNCHANGED <<tables, pc, requests>>
           ELSE /\ now = clock
                /\ tool.stage # "send" => reached
                /\ Unsent(IF tool.stage = "send"
                          THEN [tool EXCEPT !.result = Unreachable]
                          ELSE tool)

\* A handler that faults has not called conn.close(): its connection stays
\* open, held by the exception's traceback, until the interpreter's cycle
\* collector runs and finalises it.
Collect ==
    /\ connections > 0
    /\ connections' = 0
    /\ UNCHANGED <<customer_accounts, support_tickets, ticket_seq, clock, last, nops,
                   tables, pc, requests>>

\* The server starts by initialize_database_schema() (run_mcp_server_async).
Init ==
    LET db == initialize_database_schema(0) IN
    /\ customer_accounts = db.accounts
    /\ support_tickets = db.tickets
    /\ ticket_seq = db.seq
    /\ clock = 0
    /\ connections = 0
    /\ last = [called |-> FALSE, operation_name |-> PyNone, kwargs |-> NoArgs,
               now |-> 0, clock_before |-> 0, before |-> db, out |-> Escaped("", db),
               request |-> NoRequest, detail |-> "", response |-> Ok(PyNone),
               tool |-> NoTool]
    /\ nops = 0
    /\ tables = db.tables
    /\ pc = [at |-> "done", alone |-> TRUE, runs |-> 0, now |-> 0]
    /\ requests = <<>>

Next ==
    \/ GetCustomer
    \/ ListCustomers
    \/ UpdateCustomer
    \/ CreateTicket
    \/ GetCustomerHistory
    \/ CallUnknown
    \/ PostOther
    \/ UseTool
    \/ Collect

Spec == Init /\ [][Next]_vars

-----------------------------------------------------------------------------
(* Requests in flight *)

\* Bound: number of requests in flight together.
MaxInFlight == 2

\* The update_customer requests sent together.
InFlightBodies ==
    {PyDict([tool |-> PyStr("update_customer"),
             params |-> PyDict([customer_id |-> PyInt(c), data |-> d])]) :
        c \in {1, 2}, d \in UpdateData}

\* The server accepts a request and its handler waits for the body (await
\* request.json()), while the requests accepted before are waiting too.
Accept ==
    \E request_body \in InFlightBodies :
        /\ Len(requests) < MaxInFlight
        /\ \A i \in DOMAIN requests : ~requests[i].done
        /\ requests' = Append(requests, [body |-> request_body, done |-> FALSE,
                                          ok |-> FALSE, at |-> 0, order |-> 0])
        /\ UNCHANGED <<customer_accounts, support_tickets, ticket_seq, clock,
                       connections, last, nops, tables, pc>>

\* The event loop resumes one of the waiting handlers, whichever it is, and
\* runs it to its response: execute_operation and the operation handlers
\* await nothing that suspends them.
Handle ==
    \E i \in DOMAIN requests, now \in Now :
        /\ ~requests[i].done
        /\ Serve(requests[i].body, now, NoTool)
        /\ requests' = [requests EXCEPT ![i] =
                          [body |-> @.body, done |-> TRUE,
                           ok |-> ~last'.out.raised /\ last'.out.ret.success,
                           at |-> now,
                           order |-> 1 + Cardinality({j \in DOMAIN requests :
                                                        requests[j].done})]]
        /\ UNCHANGED <<tables, pc>>

NextInFlight == Accept \/ Handle

SpecInFlight == Init /\ [][NextInFlight]_vars

-----------------------------------------------------------------------------
(* initialize_database_schema run by another process *)

\* Bound: number of initialize_database_schema calls in a run.
MaxInits == 2

\* Mutant: DELETE FROM <table>, which keeps the table and its AUTOINCREMENT
\* sequence.
DeleteRows(db, table) ==
    IF table = "support_tickets"
    THEN [db EXCEPT !.tickets = <<>>]
    ELSE [db EXCEPT !.accounts = <<>>]

\* DROP TABLE IF EXISTS <table>: the rows go, and with support_tickets its
\* AUTOINCREMENT sequence (customer_accounts only gets explicit identifiers).
DropTable(db, table) ==
    IF table = "support_tickets"
    THEN [db EXCEPT !.tickets = <<>>, !.seq = 0, !.tables = @ \ {table}]
    ELSE [db EXCEPT !.accounts = <<>>, !.tables = @ \ {table}]

\* CREATE TABLE <table>
CreateTable(db, table) == [db EXCEPT !.tables = @ \cup {table}]

\* The seed tickets numbered by the AUTOINCREMENT sequence from seq + 1 on.
SeedTickets(seq, now) ==
    [i \in DOMAIN ticket_data(now) |-> [ticket_data(now)[i] EXCEPT !.ticket_id = seq + i]]

\* The two executemany INSERTs of the seed rows, committed.
InsertSeedData(db, now) ==
    [db EXCEPT !.accounts = @ \o account_data(now),
               !.tickets = @ \o SeedTickets(db.seq, now),
               !.seq = @ + Len(ticket_data(now))]

\* The requests the server handles while the other process initialises.
ReadBodies ==
    {PyDict([tool |-> PyStr("get_customer"), params |-> PyDict([customer_id |-> PyInt(c)])]) :
        c \in {1, 12345, 99}}
    \cup {PyDict([tool |-> PyStr("list_customers"), params |-> PyDict(NoArgs)]),
          PyDict([tool |-> PyStr("get_customer_history"),
                  params |-> PyDict([customer_id |-> PyInt(1)])])}

WriteBodies ==
    {PyDict([tool |-> PyStr("create_ticket"),
             params |-> PyDict([customer_id |-> PyInt(1), issue |-> PyStr("x"),
                                priority |-> PyStr("low")])]),
     PyDict([tool |-> PyStr("update_customer"),
             params |-> PyDict([customer_id |-> PyInt(1),
                                data |-> PyDict([contact_email |-> PyStr("new@email.com")])])])}

\* The store after a statement of the initialising process took it to db.
Committed(db) ==
    /\ customer_accounts' = db.accounts
    /\ support_tickets' = db.tickets
    /\ ticket_seq' = db.seq
    /\ tables' = db.tables

\* One autocommitted statement of initialize_database_schema: it takes the
\* process from position from to position to and the store to db.
Statement(from, to, db) ==
    /\ pc.at = from
    /\ pc' = [pc EXCEPT !.at = to]
    /\ Committed(db)
    /\ UNCHANGED <<clock, connections, last, nops, requests>>

\* connector = get_threadsafe_db_connector(); PRAGMA foreign_keys = OFF
Connect ==
    /\ pc.at = "done"
    /\ pc.runs < MaxInits
    /\ pc' = [at |-> "connected", alone |-> TRUE, runs |-> pc.runs + 1, now |-> pc.now]
    /\ UNCHANGED <<customer_accounts, support_tickets, ticket_seq, clock, connections,
                   last, nops, tables, requests>>

DropSupportTickets ==
    Statement("connected", "dropped_tickets", DropTable(Store, "support_tickets"))

DropCustomerAccounts ==
    Statement("dropped_tickets", "dropped_accounts", DropTable(Store, "customer_accounts"))

CreateCustomerAccounts ==
    Statement("dropped_accounts", "created_accounts", CreateTable(Store, "customer_accounts"))

CreateSupportTickets ==
    Statement("created_accounts", "created_tickets", CreateTable(Store, "support_tickets"))

\* current_utc is read and the seed rows are inserted in a transaction of
\* the initialising process: until its commit no other connection sees them.
InsertSeeds ==
    \E now \in Now :
        /\ pc.at = "created_tickets"
        /\ pc' = [pc EXCEPT !.at = "seeding", !.now = now]
        /\ clock' = now
        /\ UNCHANGED <<customer_accounts, support_tickets, ticket_seq, connections,
                       last, nops, tables, requests>>

\* connector.commit(); connector.close()
CommitSeeds ==
    /\ pc.at = "seeding"
    /\ pc' = [pc EXCEPT !.at = "done"]
    /\ Committed(InsertSeedData(Store, pc.now))
    /\ UNCHANGED <<clock, connections, last, nops, requests>>

\* The server handles a request.  While the seed transaction is open a
\* writing request waits for the database lock, so only reads are handled
\* then.  pc.alone records that no request changed the store since the
\* initialising process connected.
Request ==
    \E request_body \in ReadBodies \cup WriteBodies, now \in Now :
        /\ pc.at = "seeding" => request_body \in ReadBodies
        /\ Serve(request_body, now, NoTool)
        /\ pc' = [pc EXCEPT !.alone = @ /\ customer_accounts' = customer_accounts
                                        /\ support_tickets' = support_tickets]
        /\ UNCHANGED <<tables, requests>>

NextInit ==
    \/ Connect
    \/ DropSupportTickets
    \/ DropCustomerAccounts
    \/ CreateCustomerAccounts
    \/ CreateSupportTickets
    \/ InsertSeeds
    \/ CommitSeeds
    \/ Request

SpecInit == Init /\ [][NextInit]_vars

-----------------------------------------------------------------------------
(* Properties *)

KnownNames == {"get_customer", "list_customers", "update_customer", "create_ticket",
               "get_customer_history"}

Whitelist == {"full_name", "contact_email", "contact_phone", "account_status"}

\* The last call was of operation op, with exactly the keywords keys.
Called(op, keys) ==
    last.called /\ last.operation_name = PyStr(op) /\ DOMAIN last.kwargs = keys

Replied == ~last.out.raised
Reply == last.out.ret
Failed == Replied /\ DOMAIN Reply = {"success", "error"} /\ Reply.success = FALSE
Succeeded == Replied /\ "data" \in DOMAIN Reply /\ Reply.success = TRUE
StoreUntouched == Store = last.before

\* The identifiers an id names: SQLite compares the text of an integer with
\* the INTEGER column as that integer.
Names(id, k) == id = PyInt(k) \/ id = PyStr(IntToText(k))

RowsOf(accounts, id) ==
    {i \in DOMAIN accounts : Names(id, accounts[i].identifier)}

\* C1: execute_operation with a name that is none of the five operations
\* (and keywords that bind at the call) returns success false with the error
\* "Unknown database operation: <name>", opens no connection and leaves
\* every row as it was.
C1_UnknownOperation ==
    (/\ last.called
     /\ last.operation_name \notin {PyStr(n) : n \in KnownNames}
     /\ DOMAIN last.kwargs \cap {"self", "operation_name"} = {})
    => /\ Replied
       /\ Reply = [success |-> FALSE,
                   error |-> "Unknown database operation: "
                             \o (IF last.operation_name.t = "str"
                                 THEN last.operation_name.s ELSE "None")]
       /\ last.out.opened = 0
       /\ StoreUntouched

C1_Witness ==
    /\ last.called
    /\ last.operation_name = PyStr("nonexistent_op")
    /\ last.kwargs = [customer_id |-> PyInt(1)]
    /\ Reply.error = "Unknown database operation: nonexistent_op"
    /\ Len(support_tickets) = 8

\* C2: for every known operation and every keyword mapping execute_operation
\* raises nothing: it returns an envelope, and a fault of the handler is that
\* of "Operation execution failed: <kind> - <message>".
C2_NeverRaises ==
    (last.called /\ last.operation_name \in {PyStr(n) : n \in KnownNames})
    => Replied /\ "success" \in DOMAIN Reply

\* C3: get_customer(id) of an id in the accounts table succeeds with that
\* row's current values, which are those the table held before the call.
C3_GetCustomerReturnsRow ==
    \A i \in DOMAIN customer_accounts :
        (Called("get_customer", {"customer_id"})
         /\ last.kwargs.customer_id = PyInt(customer_accounts[i].identifier))
        => /\ Succeeded
           /\ DOMAIN Reply = {"success", "data"}
           /\ Reply.data = customer_accounts[i]
           /\ Reply.data = last.before.accounts[i]

C3_Witness ==
    /\ Called("get_customer", {"customer_id"})
    /\ last.kwargs.customer_id = PyInt(2)
    /\ Succeeded
    /\ Reply.data.identifier = 2
    /\ Reply.data.contact_email = PyStr("new@email.com")
    /\ Reply.data.full_name = PyStr("Bob Standard")
    /\ Reply.data.last_modified_timestamp = 1

\* C4: get_customer(id) of an id that matches no account row returns success
\* false with an error that names the id (or, for an id SQLite cannot bind,
\* the execution failure), raises nothing and leaves the store unchanged.
C4_GetCustomerNotFound ==
    (Called("get_customer", {"customer_id"})
     /\ RowsOf(last.before.accounts, last.kwargs.customer_id) = {})
    => /\ Failed
       /\ last.kwargs.customer_id = PyInt(99) => Reply.error = "Account with ID 99 not found"
       /\ last.kwargs.customer_id.t \in {"int", "str", "null"}
            => \E text \in {"99", "abc", "None"} :
                  Reply.error = "Account with ID " \o text \o " not found"
       /\ last.kwargs.customer_id.t = "list"
            => Reply.error = "Operation execution failed: ProgrammingError - "
                             \o "Error binding parameter: type 'list' is not supported"
       /\ StoreUntouched

C4_Witness ==
    /\ Called("get_customer", {"customer_id"})
    /\ last.kwargs.customer_id = PyInt(99)
    /\ Failed
    /\ Reply.error = "Account with ID 99 not found"
    /\ customer_accounts # account_data(0)

UpdateCalled == Called("update_customer", {"customer_id", "data"})

\* The whitelisted fields of the last call's data.
Applied == IF last.kwargs.data.t = "dict"
           THEN DOMAIN last.kwargs.data.items \cap Whitelist ELSE {}

\* The last call was update_customer with data (a mapping) none of whose
\* keys is whitelisted.
NoValidFieldGiven == UpdateCalled /\ last.kwargs.data.t = "dict" /\ Applied = {}

\* C5: update_customer whose data has no whitelisted key returns success
\* false with "No valid fields provided for update." and changes no row; a
\* get_customer of that id right after it returns the row as it was before
\* the update, last_modified_timestamp included.
C5_NoValidFields ==
    /\ [](NoValidFieldGiven
          => /\ Failed
             /\ Reply.error = "No valid fields provided for update."
             /\ StoreUntouched)
    /\ [][(/\ NoValidFieldGiven
           /\ Called("get_customer", {"customer_id"})'
           /\ last'.kwargs.customer_id = last.kwargs.customer_id
           /\ Succeeded')
          => \E i \in RowsOf(last.before.accounts, last.kwargs.customer_id) :
                Reply' = [success |-> TRUE, data |-> last.before.accounts[i]]]_vars

C5_Witness ==
    /\ NoValidFieldGiven
    /\ last.kwargs = [customer_id |-> PyInt(1),
                      data |-> PyDict([identifier |-> PyInt(7), nickname |-> PyStr("Al")])]
    /\ Failed
    /\ customer_accounts[1].last_modified_timestamp = 1
    /\ customer_accounts[1].contact_email = PyStr("new@email.com")

\* C6: a successful update_customer changes, in the account it names, only
\* the whitelisted fields present in data and last_modified_timestamp; keys
\* that are not whitelisted are ignored, and every other account, every
\* ticket and the ticket sequence stay as they were.
C6_UpdateFrame ==
    (UpdateCalled /\ Succeeded)
    => /\ support_tickets = last.before.tickets
       /\ ticket_seq = last.before.seq
       /\ DOMAIN customer_accounts = DOMAIN last.before.accounts
       /\ \A i \in DOMAIN customer_accounts :
            LET old == last.before.accounts[i]
                new == customer_accounts[i]
            IN IF Names(last.kwargs.customer_id, old.identifier)
               THEN /\ DOMAIN new = DOMAIN old
                    /\ \A f \in DOMAIN old \ (Applied \cup {"last_modified_timestamp"}) :
                          new[f] = old[f]
               ELSE new = old

C6_Witness ==
    /\ UpdateCalled
    /\ Succeeded
    /\ DOMAIN last.kwargs.data.items
         = {"account_status", "identifier", "last_modified_timestamp"}
    /\ customer_accounts[1].account_status = PyStr("disabled")
    /\ customer_accounts[1].identifier = 1
    /\ customer_accounts[1].full_name = PyStr("Alice Premium")
    /\ Len(support_tickets) = 8

\* C7 as stated: a successful update_customer returns a record in which each
\* applied whitelisted field equals the value the caller supplied.
C7_ReturnsSuppliedValues ==
    (UpdateCalled /\ Succeeded)
    => \A f \in Applied : Reply.data[f] = last.kwargs.data.items[f]

\* C7 amended: each applied whitelisted field of the returned record equals
\* the supplied value when that is a string or null, and is the decimal text
\* of the supplied value when that is an integer.
C7_ReturnsStoredValues ==
    (UpdateCalled /\ Succeeded)
    => \A f \in Applied :
          LET v == last.kwargs.data.items[f]
          IN /\ v.t \in {"str", "null"} => Reply.data[f] = v
             /\ v.t = "int" => Reply.data[f] = [t |-> "str", s |-> IntToText(v.n), n |-> 0]
             /\ v = PyInt(123) => Reply.data[f] = PyStr("123")

C7_Witness ==
    /\ UpdateCalled
    /\ Succeeded
    /\ last.kwargs.data.items = [full_name |-> PyInt(123)]
    /\ Reply.data.full_name = PyStr("123")
    /\ Reply.data.contact_email = PyStr("new@email.com")

\* The row of the account the last update_customer returned, before the call.
RowBefore ==
    last.before.accounts[CHOOSE i \in DOMAIN last.before.accounts :
                            last.before.accounts[i].identifier = Reply.data.identifier]

C9_UpdateUnknownId ==
    (/\ UpdateCalled
     /\ Applied # {}
     /\ RowsOf(last.before.accounts, last.kwargs.customer_id) = {})
    => /\ Failed
       /\ customer_accounts = last.before.accounts
       /\ StoreUntouched
       /\ (last.kwargs.customer_id = PyInt(99)
           /\ \A f \in Applied : last.kwargs.data.items[f].t # "list")
            => Reply.error = "Account 99 not found or update failed."

C9_Witness ==
    /\ UpdateCalled
    /\ last.kwargs.customer_id = PyInt(99)
    /\ last.kwargs.data = PyDict([contact_email |-> PyStr("new@email.com")])
    /\ Failed
    /\ Reply.error = "Account 99 not found or update failed."
    /\ Len(customer_accounts) = 6
    /\ customer_accounts[1].full_name = PyStr("123")

\* The spellings of low, medium and high, in any letter case, among Priorities.
ValidSpellings == {"low", "medium", "Medium", "high", "HIGH", "hIgH"}

\* C10: create_ticket with a priority that is not low, medium or high in any
\* letter case returns success false and leaves the tickets table as it was.
C10_InvalidPriority ==
    (/\ Called("create_ticket", {"customer_id", "issue", "priority"})
     /\ last.kwargs.priority \notin {PyStr(p) : p \in ValidSpellings})
    => /\ Failed
       /\ support_tickets = last.before.tickets
       /\ ticket_seq = last.before.seq
       /\ last.kwargs.priority.t = "str"
            => Reply.error = "Priority must be 'low', 'medium', or 'high'."

C10_Witness ==
    /\ Called("create_ticket", {"customer_id", "issue", "priority"})
    /\ last.kwargs.priority = PyStr("URGENT")
    /\ Failed
    /\ Len(support_tickets) = 8
    /\ support_tickets[8].priority_level = PyStr("high")

\* The priority a spelling of ValidSpellings stands for.
Canonical == [low |-> "low", medium |-> "medium", Medium |-> "medium",
              high |-> "high", HIGH |-> "high", hIgH |-> "high"]

\* The last call was create_ticket with an integer customer_id, a string
\* issue and a priority that is low, medium or high in some letter case, or
\* no priority.
ValidTicketGiven ==
    /\ \/ Called("create_ticket", {"customer_id", "issue", "priority"})
       \/ Called("create_ticket", {"customer_id", "issue"})
    /\ last.kwargs.customer_id.t = "int"
    /\ last.kwargs.issue.t = "str"
    /\ "priority" \in DOMAIN last.kwargs
         => last.kwargs.priority \in {PyStr(p) : p \in ValidSpellings}

\* C11: create_ticket(customer_id, issue, priority) with a priority that is
\* low, medium or high in any letter case, or omitted (medium), appends
\* exactly one ticket row with account_id = customer_id, description = issue,
\* status "open" and the lowercased priority, and returns that row as data.
C11_CreateTicketInsertsRow ==
    ValidTicketGiven
    => /\ Succeeded
       /\ DOMAIN Reply = {"success", "data"}
       /\ support_tickets = Append(last.before.tickets, Reply.data)
       /\ \A i \in DOMAIN last.before.tickets :
             last.before.tickets[i].ticket_id # Reply.data.ticket_id
       /\ Reply.data.account_id = last.kwargs.customer_id
       /\ Reply.data.description = last.kwargs.issue
       /\ Reply.data.status = PyStr("open")
       /\ Reply.data.priority_level =
             PyStr(IF "priority" \in DOMAIN last.kwargs
                   THEN Canonical[last.kwargs.priority.s] ELSE "medium")
       /\ Reply.data.submission_timestamp = last.now
       /\ customer_accounts = last.before.accounts

C11_Witness ==
    /\ Called("create_ticket", {"customer_id", "issue", "priority"})
    /\ ValidTicketGiven
    /\ last.kwargs.priority = PyStr("hIgH")
    /\ Succeeded
    /\ Len(support_tickets) = 9
    /\ support_tickets[9] = [ticket_id |-> 9, account_id |-> PyInt(1),
                             description |-> PyStr("Billing issue"),
                             status |-> PyStr("open"), priority_level |-> PyStr("high"),
                             submission_timestamp |-> 1]
    /\ support_tickets[8].account_id = PyInt(99)
    /\ support_tickets[8].priority_level = PyStr("medium")

\* The last call was get_customer_history with an integer customer_id.
HistoryCalled ==
    /\ Called("get_customer_history", {"customer_id"})
    /\ last.kwargs.customer_id.t = "int"

\* The stored tickets of an account, in rowid order.
TicketsOf(tickets, id) == SelectSeq(tickets, LAMBDA r : r.account_id = id)

\* C12: get_customer_history(id) always succeeds; data holds exactly the
\* tickets whose account_id is id, in non-increasing submission_timestamp
\* order (an empty list if there are none), and total_count is its length.
C12_HistoryExactAndOrdered ==
    HistoryCalled
    => LET mine == TicketsOf(last.before.tickets, last.kwargs.customer_id) IN
       /\ Succeeded
       /\ DOMAIN Reply = {"success", "data", "total_count"}
       /\ Len(Reply.data) = Len(mine)
       /\ {Reply.data[i] : i \in DOMAIN Reply.data} = {mine[i] : i \in DOMAIN mine}
       /\ \A i, j \in DOMAIN Reply.data :
             i < j => Reply.data[i].submission_timestamp
                        >= Reply.data[j].submission_timestamp
       /\ Reply.total_count = Len(Reply.data)

C12_Witness ==
    /\ HistoryCalled
    /\ last.kwargs.customer_id = PyInt(1)
    /\ Succeeded
    /\ Reply.total_count >= 2
    /\ Reply.data[1].submission_timestamp = 1
    /\ Reply.data[2].submission_timestamp = 0

\* A history of an account without tickets is an empty list.
C12_WitnessEmpty ==
    /\ HistoryCalled
    /\ last.kwargs.customer_id = PyInt(99)
    /\ Succeeded
    /\ Reply.data = <<>>
    /\ Reply.total_count = 0

\* C13: after a successful create_ticket for account id, the next
\* get_customer_history(id) lists the newly created ticket first, ahead of
\* every ticket of that account that existed before.
C13_NewTicketFirst ==
    [][(/\ ValidTicketGiven
        /\ Succeeded
        /\ last'.called
        /\ last'.operation_name = PyStr("get_customer_history")
        /\ DOMAIN last'.kwargs = {"customer_id"}
        /\ last'.kwargs.customer_id = last.kwargs.customer_id
        /\ ~last'.out.raised)
       => /\ last'.out.ret.success = TRUE
          /\ last'.out.ret.data[1] = Reply.data]_vars

\* The last call was list_customers with a string status or none and an
\* integer limit or none.
ListCalled ==
    /\ last.called
    /\ last.operation_name = PyStr("list_customers")
    /\ DOMAIN last.kwargs \subseteq {"status", "limit"}
    /\ "status" \in DOMAIN last.kwargs => last.kwargs.status.t = "str"
    /\ "limit" \in DOMAIN last.kwargs => last.kwargs.limit.t = "int"

StatusGiven == "status" \in DOMAIN last.kwargs
LimitGiven == "limit" \in DOMAIN last.kwargs

\* C14: list_customers(status, limit) has no failure case: for every status
\* (or none) and every integer limit it returns success:true, data containing
\* only accounts whose account_status equals status (all accounts when status
\* is omitted), at most limit of them, and total_count equal to the length of
\* data.
C14_ListNoFailureCase ==
    ListCalled
    => /\ Succeeded
       /\ StatusGiven => \A i \in DOMAIN Reply.data :
                            Reply.data[i].account_status = last.kwargs.status
       /\ ~StatusGiven => Reply.data = last.before.accounts
       /\ LimitGiven => Len(Reply.data) <= last.kwargs.limit.n
       /\ Reply.total_count = Len(Reply.data)

\* The status list_customers filters on: an empty string is no filter.
Filtering == StatusGiven /\ last.kwargs.status.s # ""

\* The limit in force: 100 by default.
LimitInForce == IF LimitGiven THEN last.kwargs.limit.n ELSE 100

MatchingAccounts ==
    {r \in {last.before.accounts[i] : i \in DOMAIN last.before.accounts} :
        Filtering => r.account_status = last.kwargs.status}

\* C14 (amended): for a non-empty string status, or none or the empty string
\* (both mean no filter), and a non-negative integer limit, or a negative one
\* (no limit), list_customers succeeds; data holds distinct stored accounts
\* that all match the filter, as many as match but at most the limit, and
\* total_count is the length of data.
C14_ListFiltersAndLimits ==
    ListCalled
    => /\ Succeeded
       /\ DOMAIN Reply = {"success", "data", "total_count"}
       /\ \A i \in DOMAIN Reply.data : Reply.data[i] \in MatchingAccounts
       /\ \A i, j \in DOMAIN Reply.data : i # j => Reply.data[i] # Reply.data[j]
       /\ Len(Reply.data) =
             IF LimitInForce >= 0 /\ LimitInForce < Cardinality(MatchingAccounts)
             THEN LimitInForce ELSE Cardinality(MatchingAccounts)
       /\ Reply.total_count = Len(Reply.data)
       /\ StoreUntouched

C14_Witness ==
    /\ ListCalled
    /\ last.kwargs = [status |-> PyStr("disabled"), limit |-> PyInt(1)]
    /\ Succeeded
    /\ Len(Reply.data) = 1
    /\ Reply.data[1].identifier = 3
    /\ Reply.total_count = 1

\* The limit cuts the list short.
C14_WitnessCut ==
    /\ ListCalled
    /\ last.kwargs = [status |-> PyStr(""), limit |-> PyInt(2)]
    /\ Succeeded
    /\ Len(Reply.data) = 2
    /\ Len(last.before.accounts) = 6

ReadOperations == {PyStr("get_customer"), PyStr("list_customers"),
                   PyStr("get_customer_history")}

\* C15: get_customer, list_customers and get_customer_history never change
\* the store: accounts and tickets, all fields included, are the same after
\* the call as before it, whatever the arguments and the outcome.
C15_ReadsLeaveStore ==
    (last.called /\ last.operation_name \in ReadOperations)
    => /\ customer_accounts = last.before.accounts
       /\ support_tickets = last.before.tickets
       /\ ticket_seq = last.before.seq

\* A lookup of an account that an update has changed before.
C15_Witness ==
    /\ Called("get_customer", {"customer_id"})
    /\ Succeeded
    /\ Reply.data.identifier = 1
    /\ Reply.data.last_modified_timestamp = 1
    /\ customer_accounts # account_data(0)
    /\ customer_accounts = last.before.accounts

\* The identifiers of the stored accounts, in rowid order.
Identifiers(accounts) == [i \in DOMAIN accounts |-> accounts[i].identifier]

\* C16: under any sequence of dispatcher operations after seeding, the
\* account identifiers stay exactly the seeded ones: they are unique, no
\* operation changes an identifier (even when data holds the key identifier),
\* and no operation creates or deletes an account.
C16_IdentifiersFixed ==
    /\ Identifiers(customer_accounts) = Identifiers(account_data(0))
    /\ Identifiers(customer_accounts) = <<1, 2, 3, 4, 5, 12345>>
    /\ \A i, j \in DOMAIN customer_accounts :
          i # j => customer_accounts[i].identifier # customer_accounts[j].identifier

\* An update whose data holds the key identifier has changed the account.
C16_Witness ==
    /\ Called("update_customer", {"customer_id", "data"})
    /\ last.kwargs.customer_id = PyInt(1)
    /\ last.kwargs.data.t = "dict"
    /\ "identifier" \in DOMAIN last.kwargs.data.items
    /\ Succeeded
    /\ customer_accounts # last.before.accounts
    /\ customer_accounts[1].identifier = 1
    /\ customer_accounts[1].account_status = PyStr("disabled")

\* The last call was a create_ticket that returned success:true.
TicketCreated ==
    /\ last.called
    /\ last.operation_name = PyStr("create_ticket")
    /\ Succeeded

\* C17: tickets are append-only under dispatcher operations: no operation
\* changes a field of an existing ticket or removes it, so the ticket count
\* never decreases, and it grows by exactly one per successful create_ticket
\* (and not at all otherwise).
C17_TicketsAppendOnly ==
    /\ Len(support_tickets) >= Len(last.before.tickets)
    /\ SubSeq(support_tickets, 1, Len(last.before.tickets)) = last.before.tickets
    /\ SubSeq(support_tickets, 1, Len(ticket_data(0))) = ticket_data(0)
    /\ Len(support_tickets) =
          Len(last.before.tickets) + (IF TicketCreated THEN 1 ELSE 0)

\* A second ticket has been created after the first.
C17_Witness ==
    /\ TicketCreated
    /\ Len(last.before.tickets) = 8
    /\ Len(support_tickets) = 9
    /\ support_tickets[8] = last.before.tickets[8]
    /\ support_tickets[9] = Reply.data

\* The last request's body was a JSON object {tool: string, params: mapping}.
WellFormed ==
    /\ last.request.t = "dict"
    /\ DOMAIN last.request.items = {"tool", "params"}
    /\ last.request.items.tool.t = "str"
    /\ last.request.items.params.t = "dict"

\* C18: POST /call with a body that is a JSON object {tool: string, params:
\* mapping} responds HTTP 200 with the dispatcher's envelope as the body, for
\* every tool name and every params mapping, logical failures included.
C18_WellFormedGets200 ==
    WellFormed
    => /\ last.response.status_code = 200
       /\ ~last.out.raised
       /\ last.response.content = last.out.ret

\* The last request's body was not JSON, not a JSON object, or had a params
\* that is not a mapping.
Malformed ==
    \/ last.request.t = "bytes"
    \/ last.request.t \in {"str", "int", "null", "list"}
    \/ /\ last.request.t = "dict"
       /\ "params" \in DOMAIN last.request.items
       /\ last.request.items.params.t # "dict"

\* C19: POST /call with a body that cannot be parsed as the expected shape
\* (not JSON, not an object, or params not a mapping) responds HTTP 400 with
\* {success: false, error: "Invalid request format: <message>"} and executes
\* no store operation.
C19_MalformedGets400 ==
    Malformed
    => /\ last.response.status_code = 400
       /\ last.response.content =
             [success |-> FALSE, error |-> "Invalid request format: " \o last.detail]
       /\ last.detail # ""
       /\ ~last.called
       /\ last.out.opened = 0
       /\ StoreUntouched

\* A params that is a list, sent after a ticket was created.
C19_Witness ==
    /\ last.request = PyDict([tool |-> PyStr("create_ticket"), params |-> PyList])
    /\ last.response.status_code = 400
    /\ last.response.content.error =
          "Invalid request format: mcp_server.DataAccessService.execute_operation() "
          \o "argument after ** must be a mapping, not list"
    /\ Len(support_tickets) = 8
    /\ StoreUntouched

C19_WitnessNotJson ==
    /\ last.request = NotJson
    /\ last.response.status_code = 400

C19_WitnessNotObject ==
    /\ last.request = PyList
    /\ last.response.content.error =
          "Invalid request format: 'list' object has no attribute 'get'"

\* C20: every dispatcher operation opens its own store connection and has
\* closed it by the time execute_operation returns, on every path (success,
\* logical failure, fault converted to an execution-failure envelope): after
\* any sequence of completed operations no connection is open.
C20_ConnectionsClosed ==
    /\ (last.called /\ Replied) => last.out.closed = last.out.opened
    /\ connections = 0

ListingOperations == {PyStr("list_customers"), PyStr("get_customer_history")}

\* C21: every envelope execute_operation returns has a boolean success and
\* exactly one of data and error: success:true comes with data and no error,
\* success:false with a string error and no data; total_count appears only on
\* list_customers and get_customer_history successes.
C21_EnvelopeShape ==
    (last.called /\ Replied)
    => /\ {"success"} \subseteq DOMAIN Reply
       /\ DOMAIN Reply \subseteq {"success", "data", "error", "total_count"}
       /\ Reply.success \in BOOLEAN
       /\ Reply.success => ("data" \in DOMAIN Reply /\ "error" \notin DOMAIN Reply)
       /\ ~Reply.success => /\ "error" \in DOMAIN Reply
                            /\ "data" \notin DOMAIN Reply
                            /\ Reply.error \in STRING
       /\ "total_count" \in DOMAIN Reply
             => (Reply.success /\ last.operation_name \in ListingOperations)

\* A fault turned into an execution-failure envelope.
C21_Witness ==
    /\ last.called
    /\ last.operation_name = PyStr("list_customers")
    /\ Replied
    /\ Reply = [success |-> FALSE,
                error |-> "Operation execution failed: IntegrityError - datatype mismatch"]

\* A listing success, which carries total_count.
C21_WitnessListing ==
    /\ last.called
    /\ last.operation_name = PyStr("get_customer_history")
    /\ Replied
    /\ DOMAIN Reply = {"success", "data", "total_count"}
    /\ Reply.total_count = 3

\* The last call was modify_customer_record with a payload json.loads
\* cannot parse.
UnparsablePayload ==
    /\ last.tool.function = "modify_customer_record"
    /\ json_loads(last.tool.payload).raised # ""

\* C23: modify_customer_record(customer_id, update_payload) with any
\* update_payload that cannot be parsed as JSON returns a human-readable
\* parsing-error string and sends no request to the endpoint, so the store is
\* unchanged.
C23_ParseFailureReturnsString ==
    UnparsablePayload
    => /\ last.tool.exc = ""
       /\ last.tool.result.lead = "Parsing Error: "
       /\ last.request = NoRequest
       /\ StoreUntouched

ErrorPrefixes == {"Operation Error: ", "Service Execution Failure: ", "Parsing Error: "}

\* The adapter's request was answered 200 with success:true.
ToolSucceeded ==
    /\ last.request # NoRequest
    /\ last.response.status_code = 200
    /\ last.response.content.success

\* C24: every adapter function returns a string for every outcome and never
\* raises; the string starts with an error prefix ("Operation Error: ",
\* "Service Execution Failure: " or "Parsing Error: ") if and only if the
\* operation did not succeed.
C24_ToolReturnsString ==
    last.tool.function # ""
    => /\ last.tool.exc = ""
       /\ last.tool.result.lead \in ErrorPrefixes <=> ~ToolSucceeded

PriorityLevels == {PyStr("low"), PyStr("medium"), PyStr("high")}

\* C25: in every state reachable from schema initialization by dispatcher
\* operations, every ticket row has priority_level low, medium or high, and
\* every ticket inserted by create_ticket (the rows after the seeded ones)
\* has status "open".
C25_TicketFieldsValid ==
    /\ \A i \in DOMAIN support_tickets :
          support_tickets[i].priority_level \in PriorityLevels
    /\ \A i \in DOMAIN support_tickets :
          i > Len(ticket_data(0)) => support_tickets[i].status = PyStr("open")

\* Two tickets created, from the spellings "HIGH" and "Medium".
C25_Witness ==
    /\ Len(support_tickets) = 9
    /\ support_tickets[8].priority_level = PyStr("high")
    /\ support_tickets[9].priority_level = PyStr("medium")
    /\ last.called
    /\ last.kwargs = [customer_id |-> PyInt(1), issue |-> PyStr("Billing issue"),
                      priority |-> PyStr("Medium")]
    /\ last.before.tickets[8].priority_level = PyStr("high")

\* The account ids in use.
AccountIds(accounts) == {PyInt(accounts[i].identifier) : i \in DOMAIN accounts}

\* C26: create_ticket performs no existence check on the account: with a
\* valid priority it succeeds and inserts a ticket row for any customer_id,
\* also one that matches no account.
C26_NoExistenceCheck ==
    (ValidTicketGiven /\ last.kwargs.customer_id \notin AccountIds(last.before.accounts))
    => /\ Succeeded
       /\ Len(support_tickets) = Len(last.before.tickets) + 1
       /\ support_tickets[Len(support_tickets)].account_id = last.kwargs.customer_id
       /\ Reply.data.account_id = last.kwargs.customer_id

\* A ticket whose account_id names no account is in the store.
C26_Witness ==
    /\ ValidTicketGiven
    /\ last.kwargs.customer_id = PyInt(99)
    /\ Succeeded
    /\ \E i \in DOMAIN support_tickets :
          support_tickets[i].account_id \notin AccountIds(customer_accounts)

\* The account a request in flight updates, and the whitelisted fields it sets.
TargetOf(i) == requests[i].body.items.params.items.customer_id
DataOf(i) == requests[i].body.items.params.items.data
FieldsOf(i) == IF DataOf(i).t = "dict" THEN DOMAIN Updates(DataOf(i)) ELSE {}

\* Request i sets at least one whitelisted field, each to a string or null.
SetsFields(i) ==
    /\ FieldsOf(i) # {}
    /\ \A k \in FieldsOf(i) : DataOf(i).items[k].t \in {"str", "null"}

\* The stored row of the account request i updates.
TargetRow(i) ==
    customer_accounts[CHOOSE r \in RowsOf(customer_accounts, TargetOf(i)) : TRUE]

\* C27: when two update_customer requests on the same account that set
\* disjoint whitelisted fields are in flight at the same time, in every
\* interleaving both succeed and the final row carries both fields' new
\* values: neither update loses the other's field.
C27_DisjointUpdatesBothKept ==
    \A i, j \in DOMAIN requests :
        (/\ i # j
         /\ requests[i].done /\ requests[j].done
         /\ TargetOf(i) = TargetOf(j)
         /\ SetsFields(i) /\ SetsFields(j)
         /\ FieldsOf(i) \cap FieldsOf(j) = {})
        => /\ requests[i].ok /\ requests[j].ok
           /\ \A k \in FieldsOf(i) : TargetRow(i)[k] = DataOf(i).items[k]
           /\ \A k \in FieldsOf(j) : TargetRow(j)[k] = DataOf(j).items[k]

\* The request accepted second was handled first, and both fields are set.
C27_Witness ==
    /\ Len(requests) = 2
    /\ requests[1].done /\ requests[2].done
    /\ requests[2].order = 1 /\ requests[1].order = 2
    /\ TargetOf(1) = PyInt(1) /\ TargetOf(2) = PyInt(1)
    /\ FieldsOf(1) = {"contact_email"} /\ FieldsOf(2) = {"account_status"}
    /\ requests[1].ok /\ requests[2].ok
    /\ customer_accounts[1].contact_email = PyStr("new@email.com")
    /\ customer_accounts[1].account_status = PyStr("disabled")

\* The successful updates of the account with identifier id.
WrittenOn(id) ==
    {i \in DOMAIN requests : requests[i].done /\ requests[i].ok /\ TargetOf(i) = PyInt(id)}

Contents(db) ==
    [accounts |-> [i \in DOMAIN db.accounts |->
                     [k \in DOMAIN db.accounts[i] \ {"creation_timestamp",
                                                     "last_modified_timestamp"} |->
                        db.accounts[i][k]]],
     tickets |-> [i \in DOMAIN db.tickets |->
                    [k \in DOMAIN db.tickets[i] \ {"submission_timestamp"} |->
                       db.tickets[i][k]]],
     tables |-> db.tables]

\* C22: a completed initialize_database_schema call that no request
\* interleaves with a write leaves, from any prior store, exactly the 6 seeded
\* accounts (identifiers 1, 2, 3, 4, 5, 12345) and the 7 seeded tickets
\* (ticket_id 1 to 7), all stamped with the call's current_utc; so a second
\* call gives the contents of the first, up to timestamps.
C22_InitializationReseeds ==
    [][(pc.at = "seeding" /\ pc'.at = "done" /\ pc.alone)
       => /\ Store' = initialize_database_schema(pc.now)
          /\ Contents(Store') = Contents(initialize_database_schema(0))
          /\ {customer_accounts'[i].identifier : i \in DOMAIN customer_accounts'}
                = {1, 2, 3, 4, 5, 12345}
          /\ Len(customer_accounts') = 6
          /\ Len(support_tickets') = 7]_vars

\* A call completed on a store in which the last request had updated an
\* account and an earlier one had created a ticket.
C22_Witness ==
    /\ pc.at = "done" /\ pc.runs = 1 /\ pc.alone
    /\ nops = 2
    /\ last.called /\ last.operation_name = PyStr("update_customer")
    /\ ~last.out.raised /\ last.out.ret.success
    /\ Len(last.out.tickets) = 8
    /\ last.out.accounts[1].contact_email = PyStr("new@email.com")
    /\ Store = initialize_database_schema(pc.now)

\* A second call completed after the first.
C22_WitnessTwice ==
    /\ pc.at = "done" /\ pc.runs = 2 /\ pc.alone
    /\ Store = initialize_database_schema(pc.now)

\* The identifiers initialize_database_schema seeds.
SeededIds == {PyInt(1), PyInt(2), PyInt(3), PyInt(4), PyInt(5), PyInt(12345)}

\* C29: a get_customer for a seeded identifier that the server handles while
\* initialize_database_schema runs in another process never reports not-found
\* or an execution fault: it succeeds as on a complete store.
C29_InitializationAtomic ==
    [][(/\ pc.at # "done"
        /\ nops' = nops + 1
        /\ last'.called
        /\ last'.operation_name = PyStr("get_customer")
        /\ DOMAIN last'.kwargs = {"customer_id"}
        /\ last'.kwargs.customer_id \in SeededIds)
       => (~last'.out.raised /\ last'.out.ret.success)]_vars

====
